---- MODULE Spec2Model ----
(***************************************************************************)
(* The monitoring engine of isitup: the check-cycle scheduler (runChecks,  *)
(* startScheduler), the retention cleanup (runCleanup, cleanupOldChecks),  *)
(* the on-demand check (triggerCheck), the prober and classifier           *)
(* (performCheck), the check store (saveCheckResult,                       *)
(* getLatestCheckForSite), the notifier (sendDiscordNotification,          *)
(* getWebhookUrl) and the owner's operations on a site (toggleSiteEnabled, *)
(* deleteSite).                                                            *)
(*                                                                         *)
(* Node runs one thread: the code between two awaits is one atomic step,   *)
(* and the continuations of different invocations interleave at awaits.    *)
(* A nullable value is <<>> (null) or <<v>>.                               *)
(***************************************************************************)
EXTENDS Integers, Sequences, FiniteSets, TLC

\* ------------------------------------------------------------------ bounds
\* site iterations (one probe and at most one inserted row each) in one
\* behaviour; past it the database refuses every read of the sites table
MaxProbes == 2

\* ------------------------------------------------------- program constants
TIMEOUT_MS == 30000
SLOW_THRESHOLD_MS == 3000
SSL_WARNING_DAYS == 14
DAY_MS == 24 * 60 * 60 * 1000

\* ----------------------------------------------------------------- values
Null == <<>>
Some(v) == <<v>>

Statuses == {"up", "down", "degraded"}

\* JavaScript truthiness of a nullable string / number
TruthyStr(o) == o # Null /\ o[1] # ""
TruthyNum(o) == o # Null /\ o[1] # 0

\* JavaScript truthiness of a nullable string held as a sequence of characters
TruthyText(o) == o # Null /\ o[1] # <<>>

\* String.prototype.includes on strings held as sequences of characters
Includes(body, searchText) ==
  \E i \in 0..(Len(body) - Len(searchText)) :
    SubSeq(body, i + 1, i + Len(searchText)) = searchText

\* --------------------------------------------------- health-check.ts: prober
\* checkContent(body, searchText)
checkContent(body, searchText) ==
  IF body = Null \/ body[1] = <<>> THEN FALSE ELSE Includes(body[1], searchText)

\* `HTTP ${httpResult.status}`
HttpMessage(status) ==
  IF status = Null THEN "HTTP null" ELSE "HTTP " \o ToString(status[1])

\* the early return for an unresolved name carrying no message
DnsFailedResult_NoMessage ==
  [status |-> "down", httpStatus |-> Null, responseTimeMs |-> Null,
   sslValid |-> Null, sslExpiresAt |-> Null, dnsResolved |-> FALSE,
   contentFound |-> Null, errorMessage |-> Null]

\* the early return of performCheck when DNS did not resolve
DnsFailedResult ==
  [status |-> "down", httpStatus |-> Null, responseTimeMs |-> Null,
   sslValid |-> Null, sslExpiresAt |-> Null, dnsResolved |-> FALSE,
   contentFound |-> Null, errorMessage |-> Some("DNS resolution failed")]

\* the early return of performCheck when checkHttp reported an error
HttpErrorResult(httpResult) ==
  [status |-> "down", httpStatus |-> Null,
   responseTimeMs |-> Some(httpResult.responseTimeMs),
   sslValid |-> Null, sslExpiresAt |-> Null, dnsResolved |-> TRUE,
   contentFound |-> Null, errorMessage |-> httpResult.error]

\* the TLS stage run for every HTTPS URL, whatever site.checkSsl
RunsSslStage_AnyHttps(site) == site.isHttps

\* is the TLS stage run: isHttps && site.checkSsl
RunsSslStage(site) == site.isHttps /\ site.checkSsl

\* isHttpOk taking every status below 500 for a success
IsHttpOk_Under500(status) == status # Null /\ status[1] >= 200 /\ status[1] < 500

\* const isHttpOk = status !== null && status >= 200 && status < 400
IsHttpOk(status) == status # Null /\ status[1] >= 200 /\ status[1] < 400

\* isSlow with >= in place of >
IsSlow_AtThreshold(responseTimeMs) == responseTimeMs >= SLOW_THRESHOLD_MS

\* const isSlow = httpResult.responseTimeMs > SLOW_THRESHOLD_MS
IsSlow(responseTimeMs) == responseTimeMs > SLOW_THRESHOLD_MS

\* const isSslExpiringSoon = sslExpiresAt && sslExpiresAt.getTime() - Date.now()
\*   < SSL_WARNING_DAYS * 24 * 60 * 60 * 1000
IsSslExpiringSoon(sslExpiresAt, nowMs) ==
  sslExpiresAt # Null /\ sslExpiresAt[1] - nowMs < SSL_WARNING_DAYS * DAY_MS

\* isSslInvalid never set
IsSslInvalid_Never(site, sslValid) == FALSE

\* const isSslInvalid = site.checkSsl && isHttps && sslValid === false
IsSslInvalid(site, sslValid) == site.checkSsl /\ site.isHttps /\ sslValid = Some(FALSE)

\* "Determine status": the classification at the end of performCheck.
\* sslResult is Null when the TLS stage did not run; nowMs is Date.now().
Classify(site, httpResult, sslResult, nowMs) ==
  LET sslValid     == IF sslResult = Null THEN Null ELSE Some(sslResult[1].valid)
      sslExpiresAt == IF sslResult = Null THEN Null ELSE sslResult[1].expiresAt
      contentFound == IF TruthyText(site.checkContent)
                        THEN Some(checkContent(httpResult.body, site.checkContent[1]))
                        ELSE Null
      isHttpOk == IsHttpOk(httpResult.status)
      isSlow == IsSlow(httpResult.responseTimeMs)
      isSslExpiringSoon == IsSslExpiringSoon(sslExpiresAt, nowMs)
      isContentMissing == TruthyText(site.checkContent) /\ contentFound # Some(TRUE)
      isSslInvalid == IsSslInvalid(site, sslValid)
      status == IF ~isHttpOk \/ isSslInvalid THEN "down"
                ELSE IF isSlow \/ isSslExpiringSoon \/ isContentMissing THEN "degraded"
                ELSE "up"
      errorMessage ==
        IF ~isHttpOk \/ isSslInvalid
          THEN (IF ~isHttpOk THEN Some(HttpMessage(httpResult.status))
                ELSE Some("SSL certificate invalid"))
        ELSE IF isSlow \/ isSslExpiringSoon \/ isContentMissing
          THEN (IF isSlow THEN Some("Response time > 3s")
                ELSE IF isSslExpiringSoon THEN Some("SSL certificate expiring soon")
                ELSE Some("Expected content not found"))
        ELSE Null
  IN [status |-> status, httpStatus |-> httpResult.status,
      responseTimeMs |-> Some(httpResult.responseTimeMs),
      sslValid |-> sslValid, sslExpiresAt |-> sslExpiresAt, dnsResolved |-> TRUE,
      contentFound |-> contentFound, errorMessage |-> errorMessage]

\* checkSsl(hostname): the certificate the TLS connection produced (Null: no
\* certificate, a connection error or the socket timeout) turned into its result
SslResult(validTo, nowMs) ==
  IF validTo = Null
    THEN [valid |-> FALSE, expiresAt |-> Null]
    ELSE [valid |-> validTo[1] > nowMs, expiresAt |-> validTo]

\* checkHttp(url): what its try branch and its catch branch return
HttpOk(status, responseTimeMs, body) ==
  [status |-> Some(status), responseTimeMs |-> responseTimeMs,
   body |-> Some(body), error |-> Null]
HttpFailed(message, responseTimeMs) ==
  [status |-> Null, responseTimeMs |-> responseTimeMs,
   body |-> Null, error |-> Some(message)]

\* performCheck(site) as a function of what the network did: net.dns (did the
\* lookup succeed), net.http (what checkHttp returned), net.validTo (what the
\* TLS connection produced, read only if the TLS stage runs)
performCheck(site, net, nowMs) ==
  IF ~net.dns THEN DnsFailedResult
  ELSE IF TruthyStr(net.http.error) THEN HttpErrorResult(net.http)
  ELSE Classify(site, net.http,
                IF RunsSslStage(site) THEN Some(SslResult(net.validTo, nowMs)) ELSE Null,
                nowMs)

\* checkHttp when setTimeout(() => controller.abort(), TIMEOUT_MS) fires first
HttpAborted == HttpFailed("This operation was aborted", TIMEOUT_MS)

\* ------------------------------------------------------ discord.ts: notifier
\* getWebhookUrl(userWebhook): userWebhook || process.env.DISCORD_WEBHOOK_URL || null
getWebhookUrl(userWebhook, envWebhook) ==
  IF TruthyStr(userWebhook) THEN userWebhook
  ELSE IF TruthyStr(envWebhook) THEN envWebhook
  ELSE Null

\* sendDiscordNotification without its test previousStatus === check.status
NotificationKind_NoStatusTest(webhookUrl, check, previousStatus) ==
  IF ~TruthyStr(webhookUrl) THEN "none"
  ELSE IF check.status = "down" THEN "incident"
  ELSE IF check.status = "degraded" THEN "warning"
  ELSE IF check.status = "up" /\ previousStatus = Some("down") THEN "resolved"
  ELSE IF check.status = "up" /\ previousStatus = Some("degraded") THEN "resolvedDegraded"
  ELSE "none"

\* sendDiscordNotification taking every change to up for the end of an incident
NotificationKind_AnyUpResolves(webhookUrl, check, previousStatus) ==
  IF ~TruthyStr(webhookUrl) THEN "none"
  ELSE IF previousStatus = Some(check.status) THEN "none"
  ELSE IF check.status = "down" THEN "incident"
  ELSE IF check.status = "degraded" THEN "warning"
  ELSE "resolved"

\* The title/description branch sendDiscordNotification takes; "none" when it
\* returns false before building the embed.
NotificationKind(webhookUrl, check, previousStatus) ==
  IF ~TruthyStr(webhookUrl) THEN "none"
  ELSE IF previousStatus = Some(check.status) THEN "none"
  ELSE IF check.status = "down" THEN "incident"
  ELSE IF check.status = "degraded" THEN "warning"
  ELSE IF check.status = "up" /\ previousStatus = Some("down") THEN "resolved"
  ELSE IF check.status = "up" /\ previousStatus = Some("degraded") THEN "resolvedDegraded"
  ELSE "none"

\* buildDiagnostics(check): which diagnostics it pushes, in order
buildDiagnostics(check, nowMs) ==
  LET daysUntilExpiry == (check.sslExpiresAt[1] - nowMs) \div DAY_MS
  IN (IF ~check.dnsResolved THEN <<"dns">> ELSE <<>>)
     \o (IF TruthyNum(check.httpStatus)
           THEN (IF check.httpStatus[1] >= 300 THEN <<"http">> ELSE <<>>)
           ELSE IF check.dnsResolved THEN <<"connection">> ELSE <<>>)
     \o (IF TruthyNum(check.responseTimeMs) /\ check.responseTimeMs[1] > 3000
           THEN <<"slow">> ELSE <<>>)
     \o (IF check.sslValid = Some(FALSE) THEN <<"ssl">>
         ELSE IF check.sslExpiresAt # Null /\ daysUntilExpiry <= 14 THEN <<"expiry">>
         ELSE <<>>)
     \o (IF check.contentFound = Some(FALSE) THEN <<"content">> ELSE <<>>)

\* embed.fields of the payload sendDiscordNotification builds: the names of
\* the fields, in order
EmbedFields(check, previousStatus, nowMs) ==
  <<"site", "status", "previous">>
    \o (IF TruthyNum(check.httpStatus) THEN <<"httpStatus">> ELSE <<>>)
    \o (IF TruthyNum(check.responseTimeMs) THEN <<"responseTime">> ELSE <<>>)
    \o (IF check.sslValid # Null THEN <<"ssl">> ELSE <<>>)
    \o (IF TruthyStr(check.errorMessage) THEN <<"error">> ELSE <<>>)
    \o (IF (check.status # "up" \/ previousStatus # Null)
            /\ buildDiagnostics(check, nowMs) # <<>>
          THEN <<"diagnostics">> ELSE <<>>)

\* what the awaited fetch of the webhook can do
WebhookResponses == {"ok", "notOk", "throws"}

\* sendDiscordNotification returning true whatever the webhook answered
SendReturn_AlwaysTrue(response) == TRUE

\* the value sendDiscordNotification returns once the POST has ended
SendReturn(response) == response = "ok"

\* ------------------------------------------------------------------- state
VARIABLES
  now,             \* the wall clock, in seconds, as saveCheckResult last read
                   \* it; a second in which no row is stamped is not counted
  enabled,         \* sites.enabled, per row of the sites table (its domain)
  userWebhook,     \* users.discordWebhookUrl of the sites' owner
  envWebhook,      \* process.env.DISCORD_WEBHOOK_URL
  checks,          \* the checks table: a set of rows
  nextId,          \* rows inserted so far + 1 (stands for crypto.randomUUID)
  isRunning,       \* scheduler.ts: let isRunning
  tasks,           \* the invocations of runChecks and triggerCheck
  posts,           \* the webhook POSTs issued, in order
  admitted,        \* site iterations admitted so far (see MaxProbes)
  startup,         \* the setTimeout of startScheduler: "pending", or what its
                   \* call of runChecks did: "started" a cycle or "skipped"
  call             \* one call of sendDiscordNotification (NotifySpec) or of
                   \* performCheck (ProbeSpec) on its own, or the invocation
                   \* of runCleanup (EngineSpec)

vars == <<now, enabled, userWebhook, envWebhook, checks, nextId, isRunning,
          tasks, posts, admitted, startup, call>>

\* the rows of the sites table, in the order findMany returns them
SiteList == <<"s1", "s2">>
Sites == {SiteList[k] : k \in 1..Len(SiteList)}
SiteRow(s) ==
  [id |-> s, userId |-> "u1", isHttps |-> (s = "s1"), checkSsl |-> TRUE,
   checkContent |-> Null, urlParses |-> (s # "s0")]

\* every row the sites table holds in some specification, in the order
\* findMany returns them; "s0" is a row whose url new URL(site.url) rejects.
\* The rows present are DOMAIN enabled.
SiteIds == <<"s0", "s1", "s2">>

UserHook == "https://discord.com/api/webhooks/user"
EnvHook == "https://discord.com/api/webhooks/env"

\* invocation slots: runChecks in Cyc (the second is only ever needed if two
\* cycles overlap), triggerCheck in Man
Cyc == {1, 2}
Man == {3}
Tasks == Cyc \cup Man

\* An invocation: where it stands (pc), the sites it iterates and the index of
\* the current one, the locals of the current iteration (previousStatus,
\* result, webhookUrl), and for a cycle what it has done so far: the sites it
\* probed, the rows it saved, the sites whose saved status differs from the
\* status read before the probe, those it called sendDiscordNotification for,
\* what the webhook answered and sendDiscordNotification returned for those
\* it posted for, the sites whose iteration raised an error, the sites that
\* were enabled when it fetched its list and the sites it inserted a row for.
\* A cycle that has ended keeps this record until the next one starts.
Idle ==
  [pc |-> "idle", sites |-> <<>>, idx |-> 0, previousStatus |-> Null,
   result |-> Null, webhookUrl |-> Null,
   probed |-> {}, saved |-> {}, changed |-> {}, invoked |-> {}, answered |-> {},
   failed |-> {}, fetched |-> {}, persisted |-> {}]

Site(t) == t.sites[t.idx]
NowMs == now * 1000

\* what the network does once the name has resolved, in this specification:
\* a fast 200 and a certificate valid for 20 more days
FarExpiry == 20 * DAY_MS
Networks ==
  { [dns |-> TRUE, http |-> HttpOk(200, 500, <<"o", "k">>), validTo |-> Some(FarExpiry)] }

\* getLatestCheckForSite(siteId): the rows findFirst may return under
\* orderBy desc(timestamp); rows of equal timestamp are in no defined order
LatestChecks(siteId) ==
  {c \in checks : /\ c.siteId = siteId
                  /\ \A d \in checks : d.siteId = siteId => d.timestamp <= c.timestamp}

\* saveCheckResult(siteId, result) at second `at`: the row inserted
NewCheck(siteId, result, at) ==
  [id |-> nextId, siteId |-> siteId, timestamp |-> at] @@ result

\* timestamp: new Date(): the second of the last row stamped, or a later one
ClockReadings == IF checks = {} THEN {now} ELSE {now, now + 1}

\* findMany without its where clause: every row of the sites table
EnabledList_All == SelectSeq(SiteIds, LAMBDA s : s \in DOMAIN enabled)

\* db.query.sites.findMany({where: eq(schema.sites.enabled, true)})
EnabledList == SelectSeq(SiteIds, LAMBDA s : s \in DOMAIN enabled /\ enabled[s])

FreeSlot(S) ==
  CHOOSE i \in S : tasks[i].pc = "idle" /\ \A j \in S : tasks[j].pc = "idle" => i <= j

Init ==
  /\ now = 0
  /\ enabled \in {[s \in Sites |-> TRUE], [s \in Sites |-> s = "s1"]}
  /\ userWebhook \in {Null, Some(UserHook)}
  /\ envWebhook \in {Null, Some(EnvHook)}
  /\ checks = {}
  /\ nextId = 1
  /\ isRunning = FALSE
  /\ tasks = [i \in Tasks |-> Idle]
  /\ posts = <<>>
  /\ admitted = 0
  /\ startup = "pending"
  /\ call = [pc |-> "off"]

\* ---------------------------------------------------- scheduler.ts: runChecks
\* runChecks without its test of isRunning
runChecks_NoGuard ==
  /\ \E i \in Cyc : tasks[i].pc = "idle"
  /\ isRunning' = TRUE
  /\ tasks' = [tasks EXCEPT ![FreeSlot(Cyc)] = [Idle EXCEPT !.pc = "findSites"]]

\* runChecks with its test of isRunning inside the try/finally, so that the
\* skipping invocation resets the flag
runChecks_SkipResetsFlag ==
  IF isRunning
    THEN isRunning' = FALSE /\ UNCHANGED tasks
    ELSE /\ \E i \in Cyc : tasks[i].pc = "idle"
         /\ isRunning' = TRUE
         /\ tasks' = [tasks EXCEPT ![FreeSlot(Cyc)] = [Idle EXCEPT !.pc = "findSites"]]

\* The synchronous head of runChecks: the isRunning test and assignment.
runChecks ==
  IF isRunning
    THEN UNCHANGED <<isRunning, tasks>>
    ELSE /\ \E i \in Cyc : tasks[i].pc = "idle"
         /\ isRunning' = TRUE
         /\ tasks' = [tasks EXCEPT ![FreeSlot(Cyc)] = [Idle EXCEPT !.pc = "findSites"]]

\* cron.schedule("*/5 * * * *", ...)
CronCheckTrigger ==
  /\ runChecks
  /\ UNCHANGED <<now, enabled, userWebhook, envWebhook, checks, nextId, posts,
                 admitted, startup, call>>

\* setTimeout(..., 10000): fires once
StartupTrigger ==
  /\ startup = "pending"
  /\ startup' = IF isRunning THEN "skipped" ELSE "started"
  /\ runChecks
  /\ UNCHANGED <<now, enabled, userWebhook, envWebhook, checks, nextId, posts,
                 admitted, call>>

\* The end of one site's iteration: the next site, or the loop's end and the
\* finally block. For triggerCheck: it returns.
EndIteration(i, t) ==
  LET u == [t EXCEPT !.previousStatus = Null, !.result = Null, !.webhookUrl = Null]
  IN IF i \in Cyc
       THEN IF t.idx < Len(t.sites)
              THEN /\ tasks' = [tasks EXCEPT ![i] =
                                  [u EXCEPT !.pc = "getPrev", !.idx = t.idx + 1]]
                   /\ UNCHANGED isRunning
              ELSE /\ tasks' = [tasks EXCEPT ![i] = [u EXCEPT !.pc = "idle"]]
                   /\ isRunning' = FALSE
       ELSE /\ tasks' = [tasks EXCEPT ![i] = Idle]
            /\ UNCHANGED isRunning

\* runChecks with one try/catch around the whole loop: an error ends the cycle
Raise_AbortsCycle(i, t) ==
  /\ tasks' = [tasks EXCEPT ![i] =
                 IF i \in Cyc
                   THEN [t EXCEPT !.pc = "idle", !.failed = @ \cup {Site(t)},
                                  !.previousStatus = Null, !.result = Null,
                                  !.webhookUrl = Null]
                   ELSE Idle]
  /\ isRunning' = IF i \in Cyc THEN FALSE ELSE isRunning

\* An error raised inside one site's iteration: runChecks catches and logs it,
\* triggerCheck lets it propagate to its caller.
Raise(i, t) ==
  EndIteration(i, [t EXCEPT !.failed = IF i \in Cyc THEN @ \cup {Site(t)} ELSE @])

\* const sites = await db.query.sites.findMany({where: enabled}) and the outer catch
FindSites(i, ok) ==
  /\ i \in Cyc
  /\ tasks[i].pc = "findSites"
  /\ ok => admitted + Len(EnabledList) <= MaxProbes
  /\ IF ok /\ EnabledList # <<>>
       THEN /\ tasks' = [tasks EXCEPT ![i] =
                           [@ EXCEPT !.pc = "getPrev", !.sites = EnabledList, !.idx = 1,
                                      !.fetched = {s \in DOMAIN enabled : enabled[s]}]]
            /\ admitted' = admitted + Len(EnabledList)
            /\ UNCHANGED isRunning
       ELSE /\ tasks' = [tasks EXCEPT ![i] = Idle]
            /\ isRunning' = FALSE
            /\ UNCHANGED admitted
  /\ UNCHANGED <<now, enabled, userWebhook, envWebhook, checks, nextId, posts,
                 startup, call>>

\* ------------------------------------------------ checks.ts: triggerCheck
\* triggerCheck(siteId) called by the signed-in owner of the site
triggerCheck(siteId) ==
  /\ \E i \in Man : tasks[i].pc = "idle"
  /\ tasks' = [tasks EXCEPT ![FreeSlot(Man)] =
                 [Idle EXCEPT !.pc = "findSite", !.sites = <<siteId>>, !.idx = 1]]
  /\ UNCHANGED <<now, enabled, userWebhook, envWebhook, checks, nextId, isRunning,
                 posts, admitted, startup, call>>

\* const site = await db.query.sites.findFirst(...); if (!site) throw
FindSite(i, ok) ==
  /\ i \in Man
  /\ tasks[i].pc = "findSite"
  /\ ok => admitted + 1 <= MaxProbes
  /\ IF ok
       THEN /\ tasks' = [tasks EXCEPT ![i] = [@ EXCEPT !.pc = "getPrev"]]
            /\ admitted' = admitted + 1
       ELSE /\ tasks' = [tasks EXCEPT ![i] = Idle]
            /\ UNCHANGED admitted
  /\ UNCHANGED <<now, enabled, userWebhook, envWebhook, checks, nextId, isRunning,
                 posts, startup, call>>

\* -------------------------------------- one site: runChecks and triggerCheck
\* previousCheck?.status ?? null
PreviousStatuses(siteId) ==
  IF LatestChecks(siteId) = {} THEN {Null}
  ELSE {Some(c.status) : c \in LatestChecks(siteId)}

\* const previousCheck = await getLatestCheckForSite(site.id); then performCheck
\* starts: new URL(site.url) throws for a malformed url, otherwise it awaits
\* checkDns
GetPrevious(i, ok) ==
  /\ tasks[i].pc = "getPrev"
  /\ IF ok /\ SiteRow(Site(tasks[i])).urlParses
       THEN /\ \E prev \in PreviousStatuses(Site(tasks[i])) :
                 tasks' = [tasks EXCEPT ![i] =
                             [@ EXCEPT !.pc = "dns", !.previousStatus = prev]]
            /\ UNCHANGED isRunning
       ELSE Raise(i, tasks[i])
  /\ UNCHANGED <<now, enabled, userWebhook, envWebhook, checks, nextId, posts,
                 admitted, startup, call>>

\* the caller going from the probe to the notification steps without saving
Probed_SkipsSave(i, t, result) ==
  [t EXCEPT !.pc = "findUser", !.result = Some(result),
            !.probed = IF i \in Cyc THEN @ \cup {Site(t)} ELSE @]

\* what performCheck has returned: the result, and for a cycle the site counted
\* as probed
Probed(i, t, result) ==
  [t EXCEPT !.pc = "save", !.result = Some(result),
            !.probed = IF i \in Cyc THEN @ \cup {Site(t)} ELSE @]

\* performCheck: dns.lookup has ended (checkDns sets no timer); on failure
\* performCheck returns at once
Dns(i, resolved) ==
  /\ tasks[i].pc = "dns"
  /\ LET t == tasks[i]
     IN tasks' = [tasks EXCEPT ![i] =
                    IF resolved THEN [t EXCEPT !.pc = "probe"]
                    ELSE Probed(i, t, performCheck(SiteRow(Site(t)), [dns |-> FALSE], NowMs))]
  /\ UNCHANGED <<now, enabled, userWebhook, envWebhook, checks, nextId, isRunning,
                 posts, admitted, startup, call>>

\* performCheck: checkHttp and, where it runs, checkSsl have ended (each by its
\* answer or by its timer) and performCheck returns its result
Probe(i, net) ==
  /\ tasks[i].pc = "probe"
  /\ LET t == tasks[i]
     IN tasks' = [tasks EXCEPT ![i] =
                    Probed(i, t, performCheck(SiteRow(Site(t)), net, NowMs))]
  /\ UNCHANGED <<now, enabled, userWebhook, envWebhook, checks, nextId, isRunning,
                 posts, admitted, startup, call>>

\* the callers taking every check for a change of status
StatusChanged_Always(previousStatus, result) == TRUE

\* previousStatus !== result.status
StatusChanged(previousStatus, result) == previousStatus # Some(result.status)

\* await saveCheckResult(site.id, result); runChecks then compares the
\* statuses. The insert is refused for a site whose row is gone (site_id
\* references sites.id).
Save(i, ok) ==
  /\ tasks[i].pc = "save"
  /\ ok => Site(tasks[i]) \in DOMAIN enabled
  /\ LET t == tasks[i]
         differs == StatusChanged(t.previousStatus, t.result[1])
         done == [t EXCEPT !.saved = IF i \in Cyc THEN @ \cup {nextId} ELSE @,
                           !.persisted = IF i \in Cyc THEN @ \cup {Site(t)} ELSE @,
                           !.changed =
                             IF i \in Cyc /\ t.previousStatus # Some(t.result[1].status)
                               THEN @ \cup {Site(t)} ELSE @]
     IN IF ok
          THEN /\ \E at \in ClockReadings :
                    /\ now' = at
                    /\ checks' = checks \cup {NewCheck(Site(t), t.result[1], at)}
               /\ nextId' = nextId + 1
               /\ IF i \in Cyc /\ ~differs
                    THEN EndIteration(i, done)
                    ELSE /\ tasks' = [tasks EXCEPT ![i] = [done EXCEPT !.pc = "findUser"]]
                         /\ UNCHANGED isRunning
          ELSE /\ Raise(i, t)
               /\ UNCHANGED <<now, checks, nextId>>
  /\ UNCHANGED <<enabled, userWebhook, envWebhook, posts, admitted, startup, call>>

\* const user = await db.query.users.findFirst(...) and the webhook the caller
\* resolves: getWebhookUrl(...) in runChecks, user.discordWebhookUrl in triggerCheck
FindUser(i, ok) ==
  /\ tasks[i].pc = "findUser"
  /\ LET t == tasks[i]
         url == IF i \in Cyc THEN getWebhookUrl(userWebhook, envWebhook) ELSE userWebhook
         goes == IF i \in Cyc THEN TruthyStr(url)
                 ELSE TruthyStr(url) /\ StatusChanged(t.previousStatus, t.result[1])
     IN IF ok
          THEN IF goes
                 THEN /\ tasks' = [tasks EXCEPT ![i] =
                                     [t EXCEPT !.pc = "getNew", !.webhookUrl = url]]
                      /\ UNCHANGED isRunning
                 ELSE EndIteration(i, t)
          ELSE Raise(i, t)
  /\ UNCHANGED <<now, enabled, userWebhook, envWebhook, checks, nextId, posts,
                 admitted, startup, call>>

\* const newCheck = await getLatestCheckForSite(site.id); if (newCheck)
\* sendDiscordNotification(webhookUrl, site, newCheck, previousStatus) is
\* called and runs up to its fetch, or returns false before it
GetNew(i, ok) ==
  /\ tasks[i].pc = "getNew"
  /\ LET t == tasks[i]
         called == [t EXCEPT !.invoked = IF i \in Cyc THEN @ \cup {Site(t)} ELSE @]
     IN IF ok
          THEN IF LatestChecks(Site(t)) = {}
                 THEN EndIteration(i, t) /\ UNCHANGED posts
                 ELSE \E c \in LatestChecks(Site(t)) :
                        LET kind == NotificationKind(t.webhookUrl, c, t.previousStatus)
                        IN IF kind = "none"
                             THEN EndIteration(i, called) /\ UNCHANGED posts
                             ELSE /\ posts' = Append(posts,
                                       [by |-> i, siteId |-> Site(t), checkId |-> c.id,
                                        status |-> c.status,
                                        previousStatus |-> t.previousStatus,
                                        kind |-> kind, webhookUrl |-> t.webhookUrl[1]])
                                  /\ tasks' = [tasks EXCEPT ![i] =
                                                 [called EXCEPT !.pc = "send"]]
                                  /\ UNCHANGED isRunning
          ELSE Raise(i, t) /\ UNCHANGED posts
  /\ UNCHANGED <<now, enabled, userWebhook, envWebhook, checks, nextId,
                 admitted, startup, call>>

\* sendDiscordNotification: the awaited fetch of the webhook has ended (it has
\* no timer) by a response or by throwing; the function returns
\* SendReturn(response) without raising, and neither caller reads that value
Send(i, response) ==
  /\ tasks[i].pc = "send"
  /\ LET t == tasks[i]
         answer == [site |-> Site(t), response |-> response,
                    returned |-> SendReturn(response)]
     IN EndIteration(i, [t EXCEPT !.answered = IF i \in Cyc THEN @ \cup {answer}
                                                ELSE @])
  /\ UNCHANGED <<now, enabled, userWebhook, envWebhook, checks, nextId, posts,
                 admitted, startup, call>>

Next ==
  \/ CronCheckTrigger
  \/ StartupTrigger
  \/ \E s \in Sites : triggerCheck(s)
  \/ \E i \in Tasks, ok \in BOOLEAN : FindSites(i, ok)
  \/ \E i \in Tasks, ok \in BOOLEAN : FindSite(i, ok)
  \/ \E i \in Tasks, ok \in BOOLEAN : GetPrevious(i, ok)
  \/ \E i \in Tasks, resolved \in BOOLEAN : Dns(i, resolved)
  \/ \E i \in Tasks, net \in Networks : Probe(i, net)
  \/ \E i \in Tasks, ok \in BOOLEAN : Save(i, ok)
  \/ \E i \in Tasks, ok \in BOOLEAN : FindUser(i, ok)
  \/ \E i \in Tasks, ok \in BOOLEAN : GetNew(i, ok)
  \/ \E i \in Tasks, response \in WebhookResponses : Send(i, response)

Spec == Init /\ [][Next]_vars

\* The steps of invocation i that the code guarantees to end: the database
\* calls (better-sqlite3 answers or throws synchronously) and the HTTP and TLS
\* stages of performCheck (each is ended by its timer at the latest).
\* dns.lookup and the fetch of the webhook set no timer.
Guaranteed(i) ==
  \/ \E ok \in BOOLEAN :
       FindSites(i, ok) \/ FindSite(i, ok) \/ GetPrevious(i, ok) \/ Save(i, ok)
         \/ FindUser(i, ok) \/ GetNew(i, ok)
  \/ \E net \in Networks : Probe(i, net)

FairSpec == Spec /\ \A i \in Tasks : WF_vars(Guaranteed(i))

\* ---------------------------------- sendDiscordNotification called on its own
NotifyUrls == {Null, Some(""), Some(UserHook), Some(EnvHook)}
PreviousStatusValues == {Null} \cup {Some(st) : st \in Statuses}

\* every call sendDiscordNotification(webhookUrl, site, check, previousStatus)
NotifyInit ==
  /\ now = 0
  /\ enabled = [s \in Sites |-> TRUE]
  /\ userWebhook = Null
  /\ envWebhook = Null
  /\ checks = {}
  /\ nextId = 1
  /\ isRunning = FALSE
  /\ tasks = [i \in Tasks |-> Idle]
  /\ posts = <<>>
  /\ admitted = 0
  /\ startup = "pending"
  /\ call \in [pc : {"called"}, webhookUrl : NotifyUrls, status : Statuses,
               previousStatus : PreviousStatusValues, kind : {"none"},
               posted : {0}, returned : {Null},
               httpStatus : {Null, Some(200), Some(503)},
               responseTimeMs : {Null, Some(0), Some(5200)},
               sslValid : {Null, Some(TRUE), Some(FALSE)},
               sslExpiresAt : {Null, Some(7 * DAY_MS)},
               dnsResolved : BOOLEAN,
               contentFound : {Null, Some(FALSE)},
               errorMessage : {Null, Some("Response time > 3s")},
               fields : {<<>>}]

\* sendDiscordNotification up to its return false or its await fetch(...)
sendDiscordNotification ==
  /\ call.pc = "called"
  /\ LET kind == NotificationKind(call.webhookUrl, [status |-> call.status],
                                  call.previousStatus)
     IN call' = IF kind = "none"
                  THEN [call EXCEPT !.pc = "returned", !.returned = Some(FALSE)]
                  ELSE [call EXCEPT !.pc = "fetch", !.kind = kind, !.posted = @ + 1,
                                    !.fields = EmbedFields(call, call.previousStatus, NowMs)]
  /\ UNCHANGED <<now, enabled, userWebhook, envWebhook, checks, nextId, isRunning,
                 tasks, posts, admitted, startup>>

\* the fetch has ended: return response.ok, or false from the catch
WebhookAnswers(response) ==
  /\ call.pc = "fetch"
  /\ call' = [call EXCEPT !.pc = "returned", !.returned = Some(SendReturn(response))]
  /\ UNCHANGED <<now, enabled, userWebhook, envWebhook, checks, nextId, isRunning,
                 tasks, posts, admitted, startup>>

NotifyNext ==
  \/ sendDiscordNotification
  \/ \E response \in WebhookResponses : WebhookAnswers(response)

NotifySpec == NotifyInit /\ [][NotifyNext]_vars

\* ------------------------------------------- performCheck called on its own
\* the site configurations: scheme, checkSsl, checkContent
ProbeSites ==
  [isHttps : BOOLEAN, checkSsl : BOOLEAN,
   checkContent : {Null, Some(<<>>), Some(<<"o">>)}]

\* what checkHttp can return: a response (status, time to the headers, body),
\* a transport error with its message, or the abort by the timer
ProbeHttpResults ==
  {HttpOk(st, ms, body) : st \in {199, 200, 399, 400, 503},
                          ms \in {3000, 3001},
                          body \in {<<>>, <<"o", "k">>, <<"n">>}}
    \cup {HttpFailed(msg, 12) : msg \in {"", "read ECONNRESET"}}
    \cup {HttpAborted}

\* Date.now() at the classification, and the certificate's valid_to (Null: no
\* certificate, a connection error or the socket timeout); milliseconds are
\* kept within 32 bits, so the farthest expiry is 20 days away
ClockValues == {0, DAY_MS}
ProbeValidTo ==
  {Null, Some(0), Some(14 * DAY_MS), Some(15 * DAY_MS), Some(FarExpiry)}

ProbeNetworks ==
  [dns : BOOLEAN, http : ProbeHttpResults, validTo : ProbeValidTo]

\* every call performCheck(site), in every network, at every clock value
ProbeInit ==
  /\ now = 0
  /\ enabled = [s \in Sites |-> TRUE]
  /\ userWebhook = Null
  /\ envWebhook = Null
  /\ checks = {}
  /\ nextId = 1
  /\ isRunning = FALSE
  /\ tasks = [i \in Tasks |-> Idle]
  /\ posts = <<>>
  /\ admitted = 0
  /\ startup = "pending"
  /\ call \in [pc : {"checkDns"}, site : ProbeSites, net : ProbeNetworks,
               nowMs : ClockValues, ran : {{}}, result : {Null}]

\* the stages the classification step runs besides its own: checkContent
ContentStage(site) == IF TruthyText(site.checkContent) THEN {"content"} ELSE {}

\* performCheck going on to the HTTP stage whatever checkDns returned
CheckDnsEnds_GoesOn ==
  /\ call.pc = "checkDns"
  /\ call' = [call EXCEPT !.pc = "checkHttp", !.ran = @ \cup {"dns"}]
  /\ UNCHANGED <<now, enabled, userWebhook, envWebhook, checks, nextId, isRunning,
                 tasks, posts, admitted, startup>>

\* await checkDns(hostname) has ended; if (!dnsResolved) return {...}
CheckDnsEnds ==
  /\ call.pc = "checkDns"
  /\ call' = IF call.net.dns
               THEN [call EXCEPT !.pc = "checkHttp", !.ran = @ \cup {"dns"}]
               ELSE [call EXCEPT !.pc = "returned", !.ran = @ \cup {"dns"},
                                 !.result = Some(DnsFailedResult)]
  /\ UNCHANGED <<now, enabled, userWebhook, envWebhook, checks, nextId, isRunning,
                 tasks, posts, admitted, startup>>

\* await checkHttp(site.url) has ended; if (httpResult.error) return {...};
\* without a TLS stage the content check and the classification follow at once
CheckHttpEnds ==
  /\ call.pc = "checkHttp"
  /\ call' =
       IF TruthyStr(call.net.http.error)
         THEN [call EXCEPT !.pc = "returned", !.ran = @ \cup {"http"},
                           !.result = Some(HttpErrorResult(call.net.http))]
       ELSE IF RunsSslStage(call.site)
         THEN [call EXCEPT !.pc = "checkSsl", !.ran = @ \cup {"http"}]
       ELSE [call EXCEPT !.pc = "returned",
                         !.ran = @ \cup {"http"} \cup ContentStage(call.site),
                         !.result = Some(Classify(call.site, call.net.http, Null,
                                                  call.nowMs))]
  /\ UNCHANGED <<now, enabled, userWebhook, envWebhook, checks, nextId, isRunning,
                 tasks, posts, admitted, startup>>

\* await checkSsl(hostname) has ended; the content check and the
\* classification follow at once
CheckSslEnds ==
  /\ call.pc = "checkSsl"
  /\ call' = [call EXCEPT !.pc = "returned",
                          !.ran = @ \cup {"tls"} \cup ContentStage(call.site),
                          !.result = Some(Classify(call.site, call.net.http,
                                            Some(SslResult(call.net.validTo, call.nowMs)),
                                            call.nowMs))]
  /\ UNCHANGED <<now, enabled, userWebhook, envWebhook, checks, nextId, isRunning,
                 tasks, posts, admitted, startup>>

ProbeNext == CheckDnsEnds \/ CheckHttpEnds \/ CheckSslEnds

ProbeSpec == ProbeInit /\ [][ProbeNext]_vars

\* ------------------- the scheduler's two jobs and the owner's site operations
\* runCleanup: cleanupOldChecks(30), in days and in seconds
RETENTION_DAYS == 30
RetentionSeconds == RETENTION_DAYS * 24 * 60 * 60

\* cleanupOldChecks deleting the rows stamped at the cutoff as well
OlderThan_OrAt(timestamp, cutoff) == timestamp <= cutoff

\* lt(schema.checks.timestamp, cutoffDate), both in whole seconds
OlderThan(timestamp, cutoff) == timestamp < cutoff

\* the sites table when the process starts: a malformed row and a sound one
EngineSites == {"s0", "s1"}

\* the checks table when the process starts: two rows of "s1" from earlier
\* runs, stamped one second before and exactly 30 days before the start
OldChecks ==
  { [id |-> 1, siteId |-> "s1", timestamp |-> 0 - RetentionSeconds - 1] @@ DnsFailedResult,
    [id |-> 2, siteId |-> "s1", timestamp |-> 0 - RetentionSeconds] @@ DnsFailedResult }

\* The scheduler after startScheduler, with rows of earlier runs in the store.
\* `call` is the invocation of runCleanup: where it stands, the cutoff it
\* computed, the ids its DELETE removed, whether a cycle was in progress when
\* it was triggered, whether some invocation's DELETE has raised an error and
\* whether a later one has completed since.
EngineInit ==
  /\ now = 0
  /\ enabled = [s \in EngineSites |-> TRUE]
  /\ userWebhook = Null
  /\ envWebhook = Some(EnvHook)
  /\ checks = OldChecks
  /\ nextId = 3
  /\ isRunning = FALSE
  /\ tasks = [i \in Tasks |-> Idle]
  /\ posts = <<>>
  /\ admitted = 0
  /\ startup = "pending"
  /\ call = [pc |-> "idle", cutoff |-> Null, removed |-> {}, whileCycle |-> FALSE,
             failed |-> FALSE, recovered |-> FALSE]

\* runCleanup taking the in-progress flag of the check cycle
runCleanup_TakesFlag ==
  /\ call.pc = "idle"
  /\ isRunning' = TRUE
  /\ call' = [call EXCEPT !.pc = "deleting", !.cutoff = Some(now - RetentionSeconds),
                          !.removed = {}, !.whileCycle = isRunning]
  /\ UNCHANGED <<now, enabled, userWebhook, envWebhook, checks, nextId,
                 tasks, posts, admitted, startup>>

\* cron.schedule("0 3 * * *", ...): runCleanup up to the await of the DELETE;
\* cleanupOldChecks computes cutoffDate = today's date minus retentionDays
\* (the clock is the second of the last row stamped)
runCleanup ==
  /\ call.pc = "idle"
  /\ call' = [call EXCEPT !.pc = "deleting", !.cutoff = Some(now - RetentionSeconds),
                          !.removed = {}, !.whileCycle = isRunning]
  /\ UNCHANGED <<now, enabled, userWebhook, envWebhook, checks, nextId, isRunning,
                 tasks, posts, admitted, startup>>

\* runCleanup without its try/catch: an error of the DELETE leaves it
cleanupOldChecks_NoCatch(ok) ==
  /\ call.pc = "deleting"
  /\ IF ok
       THEN /\ checks' = {c \in checks : ~OlderThan(c.timestamp, call.cutoff[1])}
            /\ call' = [call EXCEPT !.pc = "idle",
                                    !.removed = {c.id : c \in checks \ checks'},
                                    !.recovered = call.failed]
       ELSE /\ call' = [call EXCEPT !.pc = "rejected", !.failed = TRUE]
            /\ UNCHANGED checks
  /\ UNCHANGED <<now, enabled, userWebhook, envWebhook, nextId, isRunning,
                 tasks, posts, admitted, startup>>

\* await db.delete(schema.checks).where(lt(timestamp, cutoffDate)) has ended,
\* by its result or by an error that runCleanup catches and logs
cleanupOldChecks(ok) ==
  /\ call.pc = "deleting"
  /\ IF ok
       THEN /\ checks' = {c \in checks : ~OlderThan(c.timestamp, call.cutoff[1])}
            /\ call' = [call EXCEPT !.pc = "idle",
                                    !.removed = {c.id : c \in checks \ checks'},
                                    !.recovered = call.failed]
       ELSE /\ call' = [call EXCEPT !.pc = "idle", !.failed = TRUE]
            /\ UNCHANGED checks
  /\ UNCHANGED <<now, enabled, userWebhook, envWebhook, nextId, isRunning,
                 tasks, posts, admitted, startup>>

\* sites.ts: toggleSiteEnabled(siteId, value) called by the owner of the site
toggleSiteEnabled(siteId, value) ==
  /\ siteId \in DOMAIN enabled
  /\ enabled' = [enabled EXCEPT ![siteId] = value]
  /\ UNCHANGED <<now, userWebhook, envWebhook, checks, nextId, isRunning,
                 tasks, posts, admitted, startup, call>>

\* sites.ts: deleteSite(siteId) called by the owner of the site; the rows of
\* checks that reference the site go with it (onDelete: "cascade")
deleteSite(siteId) ==
  /\ siteId \in DOMAIN enabled
  /\ enabled' = [s \in DOMAIN enabled \ {siteId} |-> enabled[s]]
  /\ checks' = {c \in checks : c.siteId # siteId}
  /\ UNCHANGED <<now, userWebhook, envWebhook, nextId, isRunning,
                 tasks, posts, admitted, startup, call>>

EngineNext ==
  \/ CronCheckTrigger
  \/ runCleanup
  \/ \E ok \in BOOLEAN : cleanupOldChecks(ok)
  \/ \E s \in EngineSites, value \in BOOLEAN : toggleSiteEnabled(s, value)
  \/ \E s \in EngineSites : deleteSite(s)
  \/ \E i \in Cyc, ok \in BOOLEAN : FindSites(i, ok)
  \/ \E i \in Cyc, ok \in BOOLEAN : GetPrevious(i, ok)
  \/ \E i \in Cyc, resolved \in BOOLEAN : Dns(i, resolved)
  \/ \E i \in Cyc, net \in Networks : Probe(i, net)
  \/ \E i \in Cyc, ok \in BOOLEAN : Save(i, ok)
  \/ \E i \in Cyc, ok \in BOOLEAN : FindUser(i, ok)
  \/ \E i \in Cyc, ok \in BOOLEAN : GetNew(i, ok)
  \/ \E i \in Cyc, response \in WebhookResponses : Send(i, response)

EngineSpec == EngineInit /\ [][EngineNext]_vars

\* ================================================================ properties

\* the invocations of runChecks that have set isRunning and not yet reset it
CyclesInProgress == {i \in Cyc : tasks[i].pc # "idle"}

\* the sites of invocation t whose iteration has ended
Finished(t) ==
  {t.sites[k] : k \in 1..(IF t.pc = "idle" THEN t.idx ELSE t.idx - 1)}

\* C1: in every reachable state at most one check cycle is in progress,
\* however many times the cron trigger and the startup trigger fire and
\* however their firings interleave with the steps of a cycle; isRunning is
\* true exactly while a cycle is in progress.
C1_AtMostOneCycle ==
  /\ Cardinality(CyclesInProgress) <= 1
  /\ isRunning <=> CyclesInProgress # {}

\* the startup trigger has fired during a cycle, and that cycle goes on alone
C1_Witness ==
  /\ startup = "skipped"
  /\ \E i \in Cyc : CyclesInProgress = {i} /\ tasks[i].pc = "save"

\* C2: a firing of the cron trigger or of the startup trigger while isRunning
\* is true changes neither the flag nor the check store, starts no invocation
\* (nothing is fetched or probed for it, then or later) and posts nothing.
C2_SkippedTriggerChangesNothing ==
  [][(isRunning /\ (CronCheckTrigger \/ StartupTrigger))
       => UNCHANGED <<isRunning, tasks, checks, nextId, posts, admitted>>]_vars

\* the startup trigger was skipped and the cycle that made it skip is probing
C2_Witness ==
  /\ startup = "skipped"
  /\ isRunning
  /\ \E i \in Cyc : tasks[i].pc = "probe" /\ tasks[i].idx = 1 /\ checks = {}

\* C3: a cycle that has set isRunning eventually resets it.
C3_FlagEventuallyReset == isRunning ~> ~isRunning

\* C4: every blocking step of a site iteration of a cycle (the DNS lookup, the
\* HTTP and TLS stages, the dispatch of the webhook) eventually ends.
C4_BlockingStepsEnd ==
  \A i \in Cyc : \A p \in {"dns", "probe", "send"} :
    (tasks[i].pc = p) ~> (tasks[i].pc # p)

\* C5: a cycle ends only after the iteration of the last site of the list it
\* fetched, and every site whose iteration has ended either raised an error
\* in its own iteration or was probed and has its check in the store: an
\* error for one site keeps no other site from being probed and persisted.
C5_ErrorIsolation ==
  \A i \in Cyc :
    LET t == tasks[i]
    IN /\ t.pc = "idle" => t.idx = Len(t.sites)
       /\ \A s \in Finished(t) :
            \/ s \in t.failed
            \/ /\ s \in t.probed
               /\ \E c \in checks : c.id \in t.saved /\ c.siteId = s

\* a cycle over two sites has ended: the first site's iteration raised an
\* error, the second site was probed and its check persisted
C5_Witness ==
  \E i \in Cyc :
    LET t == tasks[i]
    IN /\ t.pc = "idle" /\ Len(t.sites) = 2
       /\ t.sites[1] \in t.failed
       /\ t.sites[2] \in t.probed \ t.failed
       /\ \E c \in checks : c.id \in t.saved /\ c.siteId = t.sites[2]

\* C6: triggerCheck is excluded by isRunning: no manual check is between its
\* read of the previous check and its insert while a cycle is in progress.
C6_ManualExcludedByFlag ==
  \A m \in Man : tasks[m].pc \in {"dns", "probe", "save"} => ~isRunning

\* check d comes before check c in the history of c's site: by timestamp, and
\* within one second by order of insertion
Precedes(d, c) ==
  /\ d.siteId = c.siteId
  /\ \/ d.timestamp < c.timestamp
     \/ d.timestamp = c.timestamp /\ d.id < c.id

Predecessors(c) ==
  {d \in checks : Precedes(d, c) /\ ~\E e \in checks : Precedes(d, e) /\ Precedes(e, c)}

\* C7: every POST is for a check whose status differs from the status of the
\* check immediately before it in its site's history, under every
\* interleaving of cycles and manual checks.
C7_NotifyOnlyOnChange ==
  \A k \in 1..Len(posts) : \A c \in checks :
    c.id = posts[k].checkId => \A d \in Predecessors(c) : d.status # c.status

C9_NoOpReturnsFalse ==
  (/\ call.pc \notin {"off", "called"}
   /\ ~TruthyStr(call.webhookUrl) \/ call.previousStatus = Some(call.status))
    => call.pc = "returned" /\ call.returned = Some(FALSE) /\ call.posted = 0

\* a call with a webhook URL and previousStatus equal to the status has returned
C9_Witness ==
  /\ call.pc = "returned"
  /\ TruthyStr(call.webhookUrl)
  /\ call.previousStatus = Some(call.status)
  /\ call.returned = Some(FALSE)

\* C10 (as amended): with a non-empty webhook URL, down after any other
\* previous status (null included) posts an incident, degraded after any
\* other previous status posts a warning, up after down posts the recovery,
\* up after degraded posts the end of the degradation, each with exactly one
\* POST; up after up or null, and any status after itself, posts nothing.
C10_KindByTransition ==
  (call.pc \notin {"off", "called"} /\ TruthyStr(call.webhookUrl)) =>
    LET prev == call.previousStatus
        st == call.status
    IN /\ (st = "down" /\ prev # Some("down"))
            => call.kind = "incident" /\ call.posted = 1
       /\ (st = "degraded" /\ prev # Some("degraded"))
            => call.kind = "warning" /\ call.posted = 1
       /\ (st = "up" /\ prev = Some("down"))
            => call.kind = "resolved" /\ call.posted = 1
       /\ (st = "up" /\ prev = Some("degraded"))
            => call.kind = "resolvedDegraded" /\ call.posted = 1
       /\ (st = "up" /\ prev \in {Null, Some("up")})
            => call.kind = "none" /\ call.posted = 0
       /\ prev = Some(st) => call.kind = "none" /\ call.posted = 0

\* the recovery has been posted, once, and the webhook has answered
C10_Witness ==
  /\ call.pc = "returned"
  /\ call.status = "up" /\ call.previousStatus = Some("down")
  /\ call.kind = "resolved" /\ call.posted = 1
  /\ call.returned = Some(TRUE)

\* C10 as stated: down posts an incident and degraded a warning for any
\* previous status
C10_KindForAnyPrevious ==
  (call.pc \notin {"off", "called"} /\ TruthyStr(call.webhookUrl)) =>
    LET prev == call.previousStatus
        st == call.status
    IN /\ st = "down" => call.kind = "incident" /\ call.posted = 1
       /\ st = "degraded" => call.kind = "warning" /\ call.posted = 1
       /\ (st = "up" /\ prev = Some("down"))
            => call.kind = "resolved" /\ call.posted = 1
       /\ (st = "up" /\ prev = Some("degraded"))
            => call.kind = "resolvedDegraded" /\ call.posted = 1
       /\ (st = "up" /\ prev \in {Null, Some("up")})
            => call.kind = "none" /\ call.posted = 0

\* ------------------------------------------ performCheck (ProbeSpec): inputs
\* the HTTP stage got a response with a status in [200, 400)
HttpInRange ==
  /\ call.net.dns
  /\ call.net.http.status # Null
  /\ call.net.http.status[1] >= 200 /\ call.net.http.status[1] < 400

\* the HTTP stage got a response with a status outside [200, 400)
HttpOutOfRange ==
  /\ call.net.dns
  /\ call.net.http.status # Null
  /\ call.net.http.status[1] < 200 \/ call.net.http.status[1] >= 400

\* the site has checkSsl set and an HTTPS URL
CertChecked == call.site.isHttps /\ call.site.checkSsl

\* the TLS check finds no certificate or one that has expired
CertInvalid ==
  CertChecked /\ (call.net.validTo = Null \/ call.net.validTo[1] <= call.nowMs)

\* the certificate checked has at most 14 days left
CertWithin14Days ==
  /\ CertChecked /\ call.net.validTo # Null
  /\ call.net.validTo[1] - call.nowMs <= 14 * DAY_MS

\* the response took more than 3000 ms
SlowResponse == call.net.http.responseTimeMs > 3000

\* the site configures a text and the body does not contain it
ContentMissing ==
  /\ call.site.checkContent \notin {Null, Some(<<>>)}
  /\ ~Includes(call.net.http.body[1], call.site.checkContent[1])

\* C13: when the DNS lookup fails, performCheck returns down with
\* dnsResolved false, "DNS resolution failed" and every other field null,
\* whatever the site's configuration, and runs no other stage.
C13_DnsFailure ==
  (call.pc = "returned" /\ ~call.net.dns) =>
    /\ call.result =
         Some([status |-> "down", httpStatus |-> Null, responseTimeMs |-> Null,
               sslValid |-> Null, sslExpiresAt |-> Null, dnsResolved |-> FALSE,
               contentFound |-> Null,
               errorMessage |-> Some("DNS resolution failed")])
    /\ call.ran = {"dns"}

\* performCheck has returned after a failed lookup for an HTTPS site with
\* checkSsl and a content text
C13_Witness ==
  /\ call.pc = "returned" /\ ~call.net.dns
  /\ CertChecked /\ call.site.checkContent = Some(<<"o">>)
  /\ call.result[1].status = "down"

\* C14: when the lookup succeeds and the HTTP fetch fails with no status
\* code, whatever its error text, performCheck returns down with dnsResolved
\* true, that text as errorMessage, httpStatus, sslValid, sslExpiresAt and
\* contentFound null, and runs neither the TLS nor the content stage.
C14_TransportFailure ==
  (call.pc = "returned" /\ call.net.dns /\ call.net.http.status = Null) =>
    /\ call.result[1].status = "down"
    /\ call.result[1].dnsResolved
    /\ call.result[1].errorMessage = call.net.http.error
    /\ call.result[1].httpStatus = Null
    /\ call.result[1].sslValid = Null
    /\ call.result[1].sslExpiresAt = Null
    /\ call.result[1].contentFound = Null
    /\ call.ran = {"dns", "http"}

\* C15: every HTTP status outside [200, 400) is classified down with
\* "HTTP {status}", whatever the response time, the certificate and the
\* content.
C15_HttpStatusDown ==
  (call.pc = "returned" /\ HttpOutOfRange) =>
    /\ call.result[1].status = "down"
    /\ call.result[1].errorMessage =
         Some("HTTP " \o ToString(call.net.http.status[1]))

\* a slow 503 with an invalid certificate and the content missing
C15_Witness ==
  /\ call.pc = "returned"
  /\ call.net.http.status = Some(503)
  /\ SlowResponse /\ CertInvalid /\ ContentMissing
  /\ call.result[1].errorMessage = Some("HTTP 503")

\* C16: with a status in [200, 400), an invalid certificate on an HTTPS site
\* with checkSsl is classified down with "SSL certificate invalid", whatever
\* the response time, the expiry and the content; with checkSsl unset or a
\* URL that is not HTTPS no TLS result is recorded and none causes down.
C16_SslInvalidDown ==
  (call.pc = "returned" /\ HttpInRange) =>
    /\ CertInvalid =>
         /\ call.result[1].sslValid = Some(FALSE)
         /\ call.result[1].status = "down"
         /\ call.result[1].errorMessage = Some("SSL certificate invalid")
    /\ ~CertChecked =>
         /\ call.result[1].sslValid = Null
         /\ call.result[1].status # "down"
         /\ "tls" \notin call.ran

\* a slow 200 with an expired certificate and the content missing
C16_Witness ==
  /\ call.pc = "returned" /\ HttpInRange
  /\ SlowResponse /\ ContentMissing
  /\ CertChecked /\ call.net.validTo = Some(0)
  /\ call.result[1].errorMessage = Some("SSL certificate invalid")

\* C17: a status in [200, 400), a response time of at most 3000 ms, no
\* invalid certificate, none within 14 days of its expiry and no configured
\* content missing are classified up with no error message.
C17_HealthyIsUp ==
  (/\ call.pc = "returned" /\ HttpInRange
   /\ ~SlowResponse /\ ~CertInvalid /\ ~CertWithin14Days /\ ~ContentMissing)
    => call.result[1].status = "up" /\ call.result[1].errorMessage = Null

\* a 399 in exactly 3000 ms, a certificate with 20 days left, the text found
C17_Witness ==
  /\ call.pc = "returned"
  /\ call.net.http.status = Some(399)
  /\ call.net.http.responseTimeMs = 3000
  /\ CertChecked /\ call.net.validTo = Some(FarExpiry) /\ call.nowMs = 0
  /\ call.result[1].contentFound = Some(TRUE)
  /\ call.result[1].status = "up"

\* C18: when no down rule applies, the status is degraded exactly if the
\* response is slow, the certificate is within 14 days of its expiry or the
\* configured content is missing, and the message is that of the first of
\* the three that holds, in this order.
C18_DegradedFirstReason ==
  (call.pc = "returned" /\ HttpInRange /\ ~CertInvalid) =>
    /\ call.result[1].status = "degraded"
         <=> (SlowResponse \/ CertWithin14Days \/ ContentMissing)
    /\ SlowResponse =>
         call.result[1].errorMessage = Some("Response time > 3s")
    /\ (~SlowResponse /\ CertWithin14Days) =>
         call.result[1].errorMessage = Some("SSL certificate expiring soon")
    /\ (~SlowResponse /\ ~CertWithin14Days /\ ContentMissing) =>
         call.result[1].errorMessage = Some("Expected content not found")

\* C19: a response is slow above 3000 ms and not at 3000 ms; a valid
\* certificate is expiring soon with at most 14 days left, exactly 14
\* included, and not with more.
C19_Thresholds ==
  (call.pc = "returned" /\ HttpInRange /\ ~CertInvalid /\ ~ContentMissing) =>
    /\ call.net.http.responseTimeMs = 3001 => call.result[1].status = "degraded"
    /\ call.net.http.responseTimeMs = 3000 =>
         /\ call.result[1].errorMessage # Some("Response time > 3s")
         /\ CertWithin14Days <=>
              /\ call.result[1].status = "degraded"
              /\ call.result[1].errorMessage = Some("SSL certificate expiring soon")

\* C20: classifying the raw findings of a result again, for the same site at
\* any other time, gives the same status and the same error message.
C20_ClassificationIgnoresClock ==
  (call.pc = "returned" /\ call.net.dns /\ ~TruthyStr(call.net.http.error)) =>
    \A t \in ClockValues :
      LET raw == call.result[1]
          ssl == IF raw.sslValid = Null THEN Null
                 ELSE Some([valid |-> raw.sslValid[1], expiresAt |-> raw.sslExpiresAt])
          again == Classify(call.site, call.net.http, ssl, t)
      IN again.status = raw.status /\ again.errorMessage = raw.errorMessage

\* C11: whatever the webhook answers, sendDiscordNotification returns without
\* raising, true exactly for a 2xx response; the check of the site was saved
\* before the POST and is still in the store afterwards, the site's
\* iteration ends without an error and the cycle goes on to its last site.
C11_FailedNotificationHarmless ==
  \A i \in Cyc :
    LET t == tasks[i]
    IN /\ t.pc = "send" => \E c \in checks : c.id \in t.saved /\ c.siteId = Site(t)
       /\ \A a \in t.answered :
            /\ a.returned <=> a.response = "ok"
            /\ a.site \in Finished(t) \ t.failed
            /\ \E c \in checks : c.id \in t.saved /\ c.siteId = a.site
       /\ t.pc = "idle" => t.idx = Len(t.sites)

\* a cycle over two sites has ended: the POST for the first site threw, its
\* check is in the store, and the second site's check was saved after it
C11_Witness ==
  \E i \in Cyc :
    LET t == tasks[i]
    IN /\ t.pc = "idle" /\ Len(t.sites) = 2
       /\ \E a \in t.answered :
            a.site = t.sites[1] /\ a.response = "throws" /\ ~a.returned
       /\ \E c, d \in checks :
            /\ c.id \in t.saved /\ c.siteId = t.sites[1]
            /\ d.id \in t.saved /\ d.siteId = t.sites[2] /\ d.id > c.id

\* C12: in a cycle and in a manual check alike, once the owner's row has been
\* read for a result whose status differs from the previous one, the
\* notification goes on with the owner's webhook if it is non-empty and else
\* with the process-wide one, and is dropped only if both are absent.
C12_WebhookResolution ==
  [][\A i \in Tasks :
       (/\ tasks[i].pc = "findUser"
        /\ FindUser(i, TRUE)
        /\ tasks[i].previousStatus # Some(tasks[i].result[1].status)
        /\ TruthyStr(getWebhookUrl(userWebhook, envWebhook)))
         => /\ tasks'[i].pc = "getNew"
            /\ tasks'[i].webhookUrl = getWebhookUrl(userWebhook, envWebhook)]_vars

\* C28: every CheckResult performCheck returns has a null errorMessage when
\* its status is up and a non-null errorMessage when its status is down or
\* degraded, for every DNS, HTTP, TLS and content outcome and every site
\* configuration.
C28_MessageIffNotUp ==
  call.pc = "returned" =>
    LET r == call.result[1]
    IN /\ r.status = "up" => r.errorMessage = Null
       /\ r.status \in {"down", "degraded"} => r.errorMessage # Null

C28_Witness ==
  /\ call.pc = "returned"
  /\ call.result[1].status = "degraded"
  /\ call.result[1].errorMessage = Some("Expected content not found")
  /\ call.result[1].contentFound = Some(FALSE)

\* C29: the TLS stage runs only for an HTTPS URL with checkSsl set, and
\* sslValid and sslExpiresAt are null when it did not run; the content stage
\* runs only for a non-empty checkContent, and contentFound is null when it
\* did not run; a TLS connection that fails or times out gives sslValid false
\* and sslExpiresAt null, and the content stage runs after it all the same.
C29_OptionalStages ==
  call.pc = "returned" =>
    LET r == call.result[1]
        site == call.site
        configured == site.checkContent # Null /\ site.checkContent[1] # <<>>
    IN /\ "tls" \in call.ran => site.isHttps /\ site.checkSsl
       /\ "tls" \notin call.ran => r.sslValid = Null /\ r.sslExpiresAt = Null
       /\ "content" \in call.ran => configured
       /\ "content" \notin call.ran => r.contentFound = Null
       /\ ("tls" \in call.ran /\ call.net.validTo = Null) =>
            /\ r.sslValid = Some(FALSE)
            /\ r.sslExpiresAt = Null
            /\ configured => "content" \in call.ran /\ r.contentFound # Null

C29_Witness ==
  /\ call.pc = "returned"
  /\ call.ran = {"dns", "http", "tls", "content"}
  /\ call.net.validTo = Null
  /\ call.result[1].sslValid = Some(FALSE)
  /\ call.result[1].contentFound = Some(TRUE)

\* C30: every payload sendDiscordNotification posts starts with the site,
\* status and previous-status fields in that order, followed by an HTTP-status
\* field whenever the Check has an httpStatus, a response-time field whenever
\* it has a responseTimeMs (0 included), an SSL field whenever sslValid is not
\* null and an error field whenever it has an errorMessage, in that order.
C30_PayloadFields ==
  call.posted = 1 =>
    LET f == call.fields
        At(name) == {k \in 4..Len(f) : f[k] = name}
        expected == <<"httpStatus">> \o <<"responseTime">> \o <<"ssl">> \o <<"error">>
        has == [name \in {"httpStatus", "responseTime", "ssl", "error"} |->
                  CASE name = "httpStatus" -> call.httpStatus # Null
                    [] name = "responseTime" -> call.responseTimeMs # Null
                    [] name = "ssl" -> call.sslValid # Null
                    [] name = "error" -> call.errorMessage # Null]
    IN /\ Len(f) >= 3
       /\ SubSeq(f, 1, 3) = <<"site", "status", "previous">>
       /\ \A k \in 1..4 : has[expected[k]] => Cardinality(At(expected[k])) = 1
       /\ \A j, k \in 1..4 :
            j < k => \A a \in At(expected[j]), b \in At(expected[k]) : a < b

\* C27: the Check a cycle hands to the notifier in a site's iteration is the
\* Check that iteration persisted, with the status that was compared with the
\* previous status, also when a manual check inserts a Check for the same
\* site between the persist and the re-read of the latest Check.
C27_NotifiesOwnCheck ==
  [][\A i \in Cyc :
       (/\ Len(posts') = Len(posts) + 1
        /\ posts'[Len(posts')].by = i)
         => /\ posts'[Len(posts')].checkId \in tasks[i].saved
            /\ posts'[Len(posts')].status = tasks[i].result[1].status]_vars

\* the rows cycle t has saved for the site of its current iteration
OwnRows(t) == {c \in checks : c.id \in t.saved /\ c.siteId = Site(t)}

\* C25: within each site iteration of a cycle the steps come in the order:
\* read the previous status, probe and classify, persist the new Check,
\* compare the two statuses, dispatch the notification. The previous status
\* is read before the new Check is persisted, and no notification step runs
\* before the Check is persisted.
C25_StepOrder ==
  \A i \in Cyc :
    LET t == tasks[i]
    IN /\ t.pc = "getPrev" =>
            /\ t.previousStatus = Null /\ t.result = Null
            /\ Site(t) \notin t.probed /\ OwnRows(t) = {}
       /\ t.pc \in {"dns", "probe"} =>
            /\ t.result = Null
            /\ Site(t) \notin t.probed /\ OwnRows(t) = {}
       /\ t.pc = "save" =>
            /\ t.result # Null /\ Site(t) \in t.probed
            /\ OwnRows(t) = {} /\ Site(t) \notin t.changed
            /\ Site(t) \notin t.invoked
       /\ t.pc \in {"findUser", "getNew"} =>
            /\ Cardinality(OwnRows(t)) = 1
            /\ Site(t) \in t.changed /\ Site(t) \notin t.invoked
       /\ t.pc = "send" =>
            /\ Cardinality(OwnRows(t)) = 1
            /\ Site(t) \in t.changed /\ Site(t) \in t.invoked

\* a cycle stands at the POST for its second site: it read the previous
\* status (none), probed, saved the row and found the status changed
C25_Witness ==
  \E i \in Cyc :
    LET t == tasks[i]
    IN /\ t.pc = "send" /\ t.idx = 2
       /\ t.previousStatus = Null
       /\ \E c \in OwnRows(t) : c.status = t.result[1].status
       /\ Site(t) \in t.probed \cap t.changed \cap t.invoked

\* C21: when the cleanup job has run with its 30-day retention, no Check
\* stamped earlier than the cutoff (the time of the run minus 30 days) is left
\* in the store, and every Check stamped at or after the cutoff is still there
\* unchanged.
C21_RetentionCleanup ==
  [][/\ runCleanup => call'.cutoff = Some(now - 30 * 24 * 60 * 60)
     /\ cleanupOldChecks(TRUE) =>
          /\ \A c \in checks' : c.timestamp >= call.cutoff[1]
          /\ \A c \in checks : c.timestamp >= call.cutoff[1] => c \in checks'
          /\ checks' \subseteq checks]_vars

\* the cleanup has removed the row stamped one second before the cutoff and
\* kept the row stamped exactly at the cutoff
C21_Witness ==
  /\ call.pc = "idle"
  /\ call.removed = {1}
  /\ \E c \in checks : c.id = 2 /\ c.timestamp = call.cutoff[1]
  /\ \A c \in checks : c.timestamp >= call.cutoff[1]

\* C22: the cleanup job neither reads nor writes the in-progress flag: a
\* cleanup trigger during a check cycle starts its deletion, which is carried
\* out while the cycle goes on, and a check trigger that fires while the
\* cleanup is running starts a cycle unless a cycle is already in progress.
C22_CleanupIgnoresFlag ==
  [][/\ call' # call => isRunning' = isRunning /\ tasks' = tasks
     /\ (runCleanup /\ isRunning) => call'.pc = "deleting"
     /\ (cleanupOldChecks(TRUE) /\ isRunning) =>
          checks' = {c \in checks : c.timestamp >= call.cutoff[1]}
     /\ (CronCheckTrigger /\ call.pc = "deleting" /\ ~isRunning) =>
          /\ isRunning'
          /\ \E i \in Cyc : tasks'[i].pc = "findSites"]_vars

\* a cleanup triggered while a cycle was in progress has deleted a row, and
\* the cycle is still at one of its sites
C22_Witness ==
  /\ call.whileCycle
  /\ call.pc = "idle"
  /\ call.removed # {}
  /\ isRunning
  /\ \E i \in Cyc : tasks[i].pc = "probe" /\ tasks[i].idx = 1 /\ admitted = Len(tasks[i].sites)

\* C23: over every sequence of operations of the engine and of the site
\* owner, a probe's result is inserted as exactly one Check, the fields of a
\* persisted Check never change, and a Check leaves the store only by the
\* retention cleanup and only when it is older than the retention window.
C23_CheckLifecycle ==
  [][/\ \A c \in checks : (\E d \in checks' : d.id = c.id) => c \in checks'
     /\ \A c \in checks \ checks' :
          /\ call.pc = "deleting" /\ call'.pc = "idle"
          /\ c.timestamp < now - 30 * 24 * 60 * 60
     /\ Cardinality(checks' \ checks) <= 1
     /\ \A c \in checks' \ checks :
          \E i \in Tasks :
            /\ tasks[i].pc = "save" /\ tasks'[i] # tasks[i]
            /\ c = [id |-> nextId, siteId |-> Site(tasks[i]), timestamp |-> now']
                     @@ tasks[i].result[1]
     /\ \A i \in Tasks :
          (tasks[i].pc = "save" /\ Save(i, TRUE)) => Cardinality(checks' \ checks) = 1]_vars

\* C24: no error raised by listing the sites, reading the latest Check,
\* probing (a malformed site URL included), persisting, looking up the user,
\* dispatching a notification or deleting old Checks leaves runChecks or
\* runCleanup: the failing iteration ends and the cycle goes on to its last
\* site, the flag is reset when no cycle is in progress, and a cleanup whose
\* DELETE failed has returned, so that the next triggers run.
C24_ErrorsStayInside ==
  /\ call.pc \in {"idle", "deleting"}
  /\ CyclesInProgress = {} => ~isRunning
  /\ \A i \in Cyc :
       LET t == tasks[i]
       IN /\ t.failed \subseteq Finished(t)
          /\ t.pc = "idle" => t.idx = Len(t.sites)
          /\ (t.pc = "idle" /\ "s0" \in t.fetched) => "s0" \in t.failed

\* an earlier cycle's only iteration raised an error (no row was inserted),
\* a later trigger started the cycle now saving its result; a cleanup's
\* DELETE raised an error and a later cleanup completed
C24_Witness ==
  /\ call.pc = "idle" /\ call.failed /\ call.recovered
  /\ nextId = 3
  /\ admitted = 2
  /\ \E i \in Cyc : tasks[i].pc = "save" /\ Len(tasks[i].sites) = 1

\* C26: a check cycle inserts at most one Check per site: exactly one for
\* each site that was enabled when the cycle fetched its list and whose probe
\* and insert succeeded, none for a site that was disabled then; enabling or
\* disabling a site during the cycle does not change the sites it checks.
C26_OneCheckPerListedSite ==
  \A i \in Cyc :
    LET t == tasks[i]
        listed == {t.sites[k] : k \in 1..Len(t.sites)}
        rows(s) == {c \in checks : c.id \in t.saved /\ c.siteId = s}
    IN /\ listed = t.fetched
       /\ Len(t.sites) = Cardinality(listed)
       /\ t.persisted \subseteq t.probed /\ t.probed \subseteq t.fetched
       /\ Cardinality(t.saved) = Cardinality(t.persisted)
       /\ \A c \in checks : c.id \in t.saved => c.siteId \in t.persisted
       /\ \A s \in t.fetched : Cardinality(rows(s)) <= 1
       /\ t.pc = "idle" =>
            /\ t.idx = Len(t.sites)
            /\ t.fetched \ t.failed \subseteq t.persisted
            /\ \A s \in t.persisted : s \in DOMAIN enabled => Cardinality(rows(s)) = 1

\* a cycle that listed "s1" alone has inserted its Check and goes on, while
\* "s1" has been disabled and "s0" enabled since it fetched its list
C26_Witness ==
  \E i \in Cyc :
    /\ tasks[i].pc = "findUser"
    /\ tasks[i].fetched = {"s1"} /\ tasks[i].persisted = {"s1"}
    /\ DOMAIN enabled = {"s0", "s1"}
    /\ enabled["s0"] /\ ~enabled["s1"]

====
